---- MODULE Spec2Model ----
(***************************************************************************)
(* Model of the weather notification bot in src/main.py: the users table,  *)
(* the scheduler's job table, process start-up with restore_jobs, the      *)
(* message handlers and the delivery pipeline send_daily_weather.          *)
(*                                                                         *)
(* Conventions.  A nullable value (SQL NULL, Python None) is the empty     *)
(* sequence None and a present value x is Some(x) = <<x>>.  A text is a    *)
(* sequence of one-character strings, so that split(':') and int() are     *)
(* computed, not assumed.  Coordinates are integers standing for the       *)
(* degrees of the REAL columns.                                            *)
(***************************************************************************)
EXTENDS Integers, Sequences, FiniteSets, TLC

\* ------------------------------------------------------------------------
\* Bounds of the model
\* ------------------------------------------------------------------------

\* How many of the sample locations users may share.
NumLocations == 1

\* The user ids that send messages.
Users == {1, 2}

\* The task that processes inbound updates, one at a time.
Handler == 0

RunIds == Users \cup {Handler}

None == <<>>

Some(x) == <<x>>

\* ------------------------------------------------------------------------
\* Inputs
\* ------------------------------------------------------------------------

AllLocations == << [lat |-> 50, lon |-> 30], [lat |-> 0, lon |-> 30], [lat |-> 41, lon |-> 0] >>

Locations == { AllLocations[i] : i \in 1..NumLocations }

DefaultZone == "Europe/Kiev"

ZoneNames == { "Europe/Kiev", "America/New_York" }

\* What the timezone service can answer: the request raises, the JSON has no
\* zoneName key, or it has one holding a zone name, "" or null.
TzResponses ==
    { [kind |-> "error", zoneName |-> None], [kind |-> "nokey", zoneName |-> None] }
    \cup { [kind |-> "zone", zoneName |-> z] : z \in { Some(n) : n \in ZoneNames } \cup { Some(""), None } }

Digits == { "0", "1", "2", "3", "4", "5", "6", "7", "8", "9" }

\* Sample text messages.
SampleTexts ==
    { << "0", "8", ":", "0", "0" >>,
      << "2", "3", ":", "5", "9" >>,
      << "2", "5", ":", "9", "9" >>,
      << "2", "4", ":", "0", "0" >>,
      << "7", ":", "6", "0" >>,
      << "1", "2", "3", ":", "0", "0" >>,
      << "8", ":", "0" >>,
      << "8", "0", "0" >> }

\* ------------------------------------------------------------------------
\* State
\* ------------------------------------------------------------------------

VARIABLES phase, store, jobs, runs, mp3, event, upsert

vars == << phase, store, jobs, runs, mp3, event, upsert >>

\* ------------------------------------------------------------------------
\* Text helpers: the routing pattern, str.split(':') and int()
\* ------------------------------------------------------------------------

\* filters.Regex(r'^\d{1,2}:\d{2}$')
MatchesTimePattern(text) ==
    \/ /\ Len(text) = 4
       /\ text[1] \in Digits /\ text[2] = ":" /\ text[3] \in Digits /\ text[4] \in Digits
    \/ /\ Len(text) = 5
       /\ text[1] \in Digits /\ text[2] \in Digits /\ text[3] = ":"
       /\ text[4] \in Digits /\ text[5] \in Digits

\* The texts main() routes to handle_time_input.
TimeTexts == { text \in SampleTexts : MatchesTimePattern(text) }

DigitValue(c) ==
    CASE c = "0" -> 0 [] c = "1" -> 1 [] c = "2" -> 2 [] c = "3" -> 3 [] c = "4" -> 4
      [] c = "5" -> 5 [] c = "6" -> 6 [] c = "7" -> 7 [] c = "8" -> 8 [] c = "9" -> 9

RECURSIVE SplitColon(_)
\* text.split(':') : the parts between the colons, in order.
SplitColon(text) ==
    IF \A i \in 1..Len(text) : text[i] # ":"
    THEN << text >>
    ELSE LET k == CHOOSE i \in 1..Len(text) :
                      text[i] = ":" /\ \A j \in 1..(i - 1) : text[j] # ":"
         IN << SubSeq(text, 1, k - 1) >> \o SplitColon(SubSeq(text, k + 1, Len(text)))

\* int() accepts a non-empty run of digits.
IsInt(part) == Len(part) > 0 /\ \A i \in 1..Len(part) : part[i] \in Digits

RECURSIVE IntOf(_)
IntOf(part) ==
    IF part = << >> THEN 0
    ELSE 10 * IntOf(SubSeq(part, 1, Len(part) - 1)) + DigitValue(part[Len(part)])

\* hour, minute = map(int, time_str.split(':')) : ok is FALSE where Python
\* raises ValueError (not two parts, or a part that is no integer).
ParseTime(text) ==
    LET parts == SplitColon(text)
    IN IF Len(parts) = 2 /\ IsInt(parts[1]) /\ IsInt(parts[2])
       THEN [ok |-> TRUE, hour |-> IntOf(parts[1]), minute |-> IntOf(parts[2])]
       ELSE [ok |-> FALSE, hour |-> 0, minute |-> 0]

\* The parse of each sample text, computed once.
TimeOf == [text \in TimeTexts |-> ParseTime(text)]

\* CronTrigger with each upper limit one too high.
CronTriggerAcceptsOneMore(hour, minute) == hour \in 0..24 /\ minute \in 0..60

\* CronTrigger(hour=, minute=, timezone=) raises ValueError outside these ranges.
CronTriggerAccepts(hour, minute) == hour \in 0..23 /\ minute \in 0..59

\* ------------------------------------------------------------------------
\* The users table
\* ------------------------------------------------------------------------

EmptySettings == [latitude |-> None, longitude |-> None, notification_time |-> None, timezone |-> None]

\* get_user_settings: the row, or {} whose .get(...) gives None for every key.
get_user_settings(st, user_id) ==
    IF user_id \in DOMAIN st THEN st[user_id] ELSE EmptySettings

\* Python truthiness of a nullable number and of a nullable text or string.
TruthyNumber(v) == v # None /\ v[1] # 0

TruthyString(v) == v # None /\ v[1] # ""

TruthyText(v) == v # None /\ v[1] # << >>

\* save_user_settings as a record-wise replace: the arguments as passed.
save_user_settings_replacing(st, user_id, lat, lon, notification_time, timezone) ==
    LET row == [latitude |-> lat, longitude |-> lon,
                notification_time |-> notification_time, timezone |-> timezone]
    IN [u \in DOMAIN st \cup {user_id} |-> IF u = user_id THEN row ELSE st[u]]

\* save_user_settings: read the current row, take each argument that is not
\* None and the current value otherwise, INSERT OR REPLACE the merged row.
save_user_settings(st, user_id, lat, lon, notification_time, timezone) ==
    LET current == get_user_settings(st, user_id)
        row == [latitude          |-> IF lat # None THEN lat ELSE current.latitude,
                longitude         |-> IF lon # None THEN lon ELSE current.longitude,
                notification_time |-> IF notification_time # None THEN notification_time
                                      ELSE current.notification_time,
                timezone          |-> IF timezone # None THEN timezone ELSE current.timezone]
    IN [u \in DOMAIN st \cup {user_id} |-> IF u = user_id THEN row ELSE st[u]]

\* get_timezone: the zoneName of the answer, the default when the key is
\* missing or the request fails.
get_timezone(resp) ==
    CASE resp.kind = "error" -> Some(DefaultZone)
      [] resp.kind = "nokey" -> Some(DefaultZone)
      [] OTHER -> resp.zoneName

\* ------------------------------------------------------------------------
\* The scheduler's job table
\* ------------------------------------------------------------------------

Job(user_id, hour, minute, timezone) ==
    [id |-> user_id, hour |-> hour, minute |-> minute, timezone |-> timezone]

\* add_job without replace_existing: the old job of the id stays.
add_job_keeping_old(js, job) == js \cup {job}

\* scheduler.add_job(..., id=f"user_{user_id}", replace_existing=True)
add_job(js, job) == { j \in js : j.id # job.id } \cup {job}

RECURSIVE RestoreRowsStopping(_, _, _)
\* The loop of restore_jobs leaving at the first row it cannot schedule.
RestoreRowsStopping(st, rest, js) ==
    IF rest = {} THEN js
    ELSE LET user_id == CHOOSE u \in rest : \A v \in rest : u <= v
             row == st[user_id]
             t == TimeOf[row.notification_time[1]]
         IN IF TruthyText(row.notification_time) /\ TruthyString(row.timezone)
            THEN RestoreRowsStopping(st, rest \ {user_id},
                     add_job(js, Job(user_id, t.hour, t.minute, row.timezone[1])))
            ELSE js

RECURSIVE RestoreRows(_, _, _)
\* The loop of restore_jobs over the selected rows, in user id order.
RestoreRows(st, rest, js) ==
    IF rest = {} THEN js
    ELSE LET user_id == CHOOSE u \in rest : \A v \in rest : u <= v
             row == st[user_id]
             t == TimeOf[row.notification_time[1]]
         IN RestoreRows(st, rest \ {user_id},
                IF TruthyText(row.notification_time) /\ TruthyString(row.timezone)
                THEN add_job(js, Job(user_id, t.hour, t.minute, row.timezone[1]))
                ELSE js)

\* restore_jobs: SELECT ... WHERE notification_time IS NOT NULL, then the loop.
restore_jobs(st, js) ==
    RestoreRows(st, { u \in DOMAIN st : st[u].notification_time # None }, js)

\* ------------------------------------------------------------------------
\* What a step did that the outside can see
\* ------------------------------------------------------------------------

\* One step's record: which operation ran for which user, the reply sent to
\* the chat ("" for none), how it ended, the weather fetches made, whether
\* the narration generator gave ("none" when not called), whether the forecast text was sent,
\* and the audio that was sent (None, or Some(n): rendered from the
\* narration of user n, 0 standing for a truncated file).
Event(op, user, reply, outcome, fetches, narration, text, audio) ==
    [op |-> op, user |-> user, reply |-> reply, outcome |-> outcome,
     fetches |-> fetches, narration |-> narration, text |-> text, audio |-> audio]

Quiet(op, user, reply, outcome) == Event(op, user, reply, outcome, 0, "none", FALSE, None)

IdleRun == [pc |-> "idle", user |-> 0, audio |-> None]

\* ------------------------------------------------------------------------
\* Process start and stop
\* ------------------------------------------------------------------------

\* Updates fetched as soon as the application is built, before post_init.
AcceptingUpdatesEarly == phase \in { "starting", "polling" }

\* run_polling starts fetching updates, and the scheduler starts firing,
\* only after the post_init hook has returned.
AcceptingUpdates == phase = "polling"

\* save_user_settings declared async def with an await between its read and
\* its write: the loop runs other tasks while a call is in progress.
LoopFree_suspending == TRUE

\* The event loop is free to run a task: no synchronous code is in
\* progress.  save_user_settings is a plain def with no await, so from its
\* read of the current row to its commit the loop runs nothing else.
LoopFree == upsert = None

\* No update is being processed: updates are handled one after another.
HandlerFree == runs[Handler].pc = "idle"

\* setup_scheduler, the post_init hook: scheduler.start(); restore_jobs(app.bot)
setup_scheduler ==
    /\ phase = "starting"
    /\ jobs' = restore_jobs(store, jobs)
    /\ phase' = "polling"
    /\ event' = Quiet("setup_scheduler", 0, "", "restored")
    /\ UNCHANGED << store, runs, mp3, upsert >>

\* The process ends and main() runs again: the module creates a new, empty
\* scheduler and no coroutine of the old process survives; the database
\* and the file weather.mp3 stay on disk.
Restart ==
    /\ phase = "polling"
    /\ phase' = "starting"
    /\ jobs' = {}
    /\ runs' = [r \in RunIds |-> IdleRun]
    /\ upsert' = None
    /\ event' = Quiet("restart", 0, "", "started")
    /\ UNCHANGED << store, mp3 >>

\* ------------------------------------------------------------------------
\* Handlers of settings messages
\* ------------------------------------------------------------------------

\* handle_location: resolve the timezone, save coordinates and timezone,
\* reply.  A write that fails raises out of the handler before the reply:
\* nothing is changed and nothing is sent, which is the stuttering step.
handle_location(user_id, loc, resp) ==
    /\ LoopFree /\ AcceptingUpdates /\ HandlerFree
    /\ LET timezone == get_timezone(resp)
       IN /\ store' = save_user_settings(store, user_id, Some(loc.lat), Some(loc.lon),
                                         None, timezone)
          /\ event' = Quiet("handle_location", user_id, "location_saved", "ok")
    /\ UNCHANGED << phase, jobs, runs, mp3, upsert >>

\* handle_time_input saving the text before it looks for the timezone.
handle_time_input_saving_first(user_id, time_str, dbok) ==
    /\ LoopFree /\ AcceptingUpdates /\ HandlerFree
    /\ time_str \in TimeTexts
    /\ LET t == TimeOf[time_str]
           settings == get_user_settings(store, user_id)
       IN CASE ~t.ok ->
                 /\ event' = Quiet("handle_time_input", user_id, "invalid_format", "ValueError")
                 /\ UNCHANGED << store, jobs >>
            [] t.ok /\ ~TruthyString(settings.timezone) ->
                 /\ event' = Quiet("handle_time_input", user_id, "share_location_first", "no_timezone")
                 /\ store' = save_user_settings(store, user_id, None, None, Some(time_str), None)
                 /\ jobs' = jobs
            [] t.ok /\ TruthyString(settings.timezone) /\ ~CronTriggerAccepts(t.hour, t.minute) ->
                 /\ event' = Quiet("handle_time_input", user_id, "invalid_format", "ValueError")
                 /\ UNCHANGED << store, jobs >>
            [] OTHER ->
                 /\ jobs' = add_job(jobs, Job(user_id, t.hour, t.minute, settings.timezone[1]))
                 /\ IF dbok
                    THEN /\ store' = save_user_settings(store, user_id, None, None,
                                                        Some(time_str), None)
                         /\ event' = Quiet("handle_time_input", user_id, "time_set", "ok")
                    ELSE /\ store' = store
                         /\ event' = Quiet("handle_time_input", user_id, "error", "Exception")
    /\ UNCHANGED << phase, runs, mp3, upsert >>

\* handle_time_input building the trigger in the default zone.
handle_time_input_default_zone(user_id, time_str, dbok) ==
    /\ LoopFree /\ AcceptingUpdates /\ HandlerFree
    /\ time_str \in TimeTexts
    /\ LET t == TimeOf[time_str]
           settings == get_user_settings(store, user_id)
       IN CASE ~t.ok ->
                 /\ event' = Quiet("handle_time_input", user_id, "invalid_format", "ValueError")
                 /\ UNCHANGED << store, jobs >>
            [] t.ok /\ ~TruthyString(settings.timezone) ->
                 /\ event' = Quiet("handle_time_input", user_id, "share_location_first", "no_timezone")
                 /\ UNCHANGED << store, jobs >>
            [] t.ok /\ TruthyString(settings.timezone) /\ ~CronTriggerAccepts(t.hour, t.minute) ->
                 /\ event' = Quiet("handle_time_input", user_id, "invalid_format", "ValueError")
                 /\ UNCHANGED << store, jobs >>
            [] OTHER ->
                 /\ jobs' = add_job(jobs, Job(user_id, t.hour, t.minute, DefaultZone))
                 /\ IF dbok
                    THEN /\ store' = save_user_settings(store, user_id, None, None,
                                                        Some(time_str), None)
                         /\ event' = Quiet("handle_time_input", user_id, "time_set", "ok")
                    ELSE /\ store' = store
                         /\ event' = Quiet("handle_time_input", user_id, "error", "Exception")
    /\ UNCHANGED << phase, runs, mp3, upsert >>

\* handle_time_input: parse, require a timezone, add the job, save the time.
handle_time_input(user_id, time_str, dbok) ==
    /\ LoopFree /\ AcceptingUpdates /\ HandlerFree
    /\ time_str \in TimeTexts
    /\ LET t == TimeOf[time_str]
           settings == get_user_settings(store, user_id)
       IN CASE ~t.ok ->
                 /\ event' = Quiet("handle_time_input", user_id, "invalid_format", "ValueError")
                 /\ UNCHANGED << store, jobs >>
            [] t.ok /\ ~TruthyString(settings.timezone) ->
                 /\ event' = Quiet("handle_time_input", user_id, "share_location_first", "no_timezone")
                 /\ UNCHANGED << store, jobs >>
            [] t.ok /\ TruthyString(settings.timezone) /\ ~CronTriggerAccepts(t.hour, t.minute) ->
                 /\ event' = Quiet("handle_time_input", user_id, "invalid_format", "ValueError")
                 /\ UNCHANGED << store, jobs >>
            [] OTHER ->
                 /\ jobs' = add_job(jobs, Job(user_id, t.hour, t.minute, settings.timezone[1]))
                 /\ IF dbok
                    THEN /\ store' = save_user_settings(store, user_id, None, None,
                                                        Some(time_str), None)
                         /\ event' = Quiet("handle_time_input", user_id, "time_set", "ok")
                    ELSE /\ store' = store
                         /\ event' = Quiet("handle_time_input", user_id, "error", "Exception")
    /\ UNCHANGED << phase, runs, mp3, upsert >>

\* ------------------------------------------------------------------------
\* The delivery pipeline
\* ------------------------------------------------------------------------

\* What the text-to-speech step can do: gTTS(...) raises before any file is
\* opened, save() raises after it has created weather.mp3, or save() ends.
TtsResults == { "raises", "save_raises", "saved" }

\* send_daily_weather going on to the narration when the fetch gave nothing.
send_daily_weather_without_weather(r, op, user_id, fetched, weatherOk, narrationOk, tts) ==
    LET settings == get_user_settings(store, user_id)
        narration == IF narrationOk THEN "generated" ELSE "fallback"
    IN CASE ~TruthyNumber(settings.latitude) \/ ~TruthyNumber(settings.longitude) ->
              /\ event' = Event(op, user_id, "", "no_coordinates", fetched, "none", FALSE, None)
              /\ runs' = [runs EXCEPT ![r] = IdleRun]
              /\ mp3' = mp3
         [] OTHER ->
              CASE tts = "raises" ->
                     /\ event' = Event(op, user_id, "", "tts_raised", fetched + 1, narration, FALSE, None)
                     /\ runs' = [runs EXCEPT ![r] = IdleRun]
                     /\ mp3' = mp3
                [] tts = "save_raises" ->
                     /\ event' = Event(op, user_id, "", "tts_raised", fetched + 1, narration, FALSE, None)
                     /\ runs' = [runs EXCEPT ![r] = IdleRun]
                     /\ mp3' = Some(0)
                [] OTHER ->
                     /\ event' = Event(op, user_id, "", "awaiting_send_message", fetched + 1,
                                       narration, FALSE, None)
                     /\ runs' = [runs EXCEPT ![r] = [pc |-> "send_message", user |-> user_id,
                                                     audio |-> None]]
                     /\ mp3' = Some(user_id)

\* send_daily_weather from its first line to its first suspension, the await
\* of bot.send_message, run by task r for user_id.  get_weather and
\* generate_weather_description make blocking requests and never suspend.
\* fetched counts the fetches the caller made before the call.
send_daily_weather(r, op, user_id, fetched, weatherOk, narrationOk, tts) ==
    LET settings == get_user_settings(store, user_id)
        narration == IF narrationOk THEN "generated" ELSE "fallback"
    IN CASE ~TruthyNumber(settings.latitude) \/ ~TruthyNumber(settings.longitude) ->
              /\ event' = Event(op, user_id, "", "no_coordinates", fetched, "none", FALSE, None)
              /\ runs' = [runs EXCEPT ![r] = IdleRun]
              /\ mp3' = mp3
         [] TruthyNumber(settings.latitude) /\ TruthyNumber(settings.longitude) /\ ~weatherOk ->
              /\ event' = Event(op, user_id, "", "no_weather", fetched + 1, "none", FALSE, None)
              /\ runs' = [runs EXCEPT ![r] = IdleRun]
              /\ mp3' = mp3
         [] OTHER ->
              CASE tts = "raises" ->
                     /\ event' = Event(op, user_id, "", "tts_raised", fetched + 1, narration, FALSE, None)
                     /\ runs' = [runs EXCEPT ![r] = IdleRun]
                     /\ mp3' = mp3
                [] tts = "save_raises" ->
                     /\ event' = Event(op, user_id, "", "tts_raised", fetched + 1, narration, FALSE, None)
                     /\ runs' = [runs EXCEPT ![r] = IdleRun]
                     /\ mp3' = Some(0)
                [] OTHER ->
                     /\ event' = Event(op, user_id, "", "awaiting_send_message", fetched + 1,
                                       narration, FALSE, None)
                     /\ runs' = [runs EXCEPT ![r] = [pc |-> "send_message", user |-> user_id,
                                                     audio |-> None]]
                     /\ mp3' = Some(user_id)

\* A firing whose callback ended without reaching the sends takes its job
\* out of the table.
Fire_removing_failed_job(user_id, weatherOk, narrationOk, tts) ==
    /\ LoopFree /\ AcceptingUpdates
    /\ \E j \in jobs : j.id = user_id
    /\ runs[user_id].pc = "idle"
    /\ send_daily_weather(user_id, "fire", user_id, 0, weatherOk, narrationOk, tts)
    /\ jobs' = IF event'.outcome = "awaiting_send_message" THEN jobs
               ELSE { j \in jobs : j.id # user_id }
    /\ UNCHANGED << phase, store, upsert >>

\* The scheduler fires the job of user_id.  A job whose previous firing is
\* still running is not started again (max_instances is 1).
Fire(user_id, weatherOk, narrationOk, tts) ==
    /\ LoopFree /\ AcceptingUpdates
    /\ \E j \in jobs : j.id = user_id
    /\ runs[user_id].pc = "idle"
    /\ send_daily_weather(user_id, "fire", user_id, 0, weatherOk, narrationOk, tts)
    /\ UNCHANGED << phase, store, jobs, upsert >>

\* handle_instant_forecast fetching the weather before it looks at the
\* coordinates.
handle_instant_forecast_fetching_first(user_id, weatherOk, narrationOk, tts) ==
    /\ LoopFree /\ AcceptingUpdates /\ HandlerFree
    /\ LET settings == get_user_settings(store, user_id)
       IN IF TruthyNumber(settings.latitude) /\ TruthyNumber(settings.longitude)
          THEN send_daily_weather(Handler, "handle_instant_forecast", user_id, 1,
                                  weatherOk, narrationOk, tts)
          ELSE /\ event' = Event("handle_instant_forecast", user_id, "share_location_prompt",
                                 "no_coordinates", 1, "none", FALSE, None)
               /\ UNCHANGED << runs, mp3 >>
    /\ UNCHANGED << phase, store, jobs, upsert >>

\* handle_instant_forecast: with coordinates, fetch the weather (the result
\* is not used) and await send_daily_weather; else ask for the location.
handle_instant_forecast(user_id, weatherOk, narrationOk, tts) ==
    /\ LoopFree /\ AcceptingUpdates /\ HandlerFree
    /\ LET settings == get_user_settings(store, user_id)
       IN IF TruthyNumber(settings.latitude) /\ TruthyNumber(settings.longitude)
          THEN send_daily_weather(Handler, "handle_instant_forecast", user_id, 1,
                                  weatherOk, narrationOk, tts)
          ELSE /\ event' = Event("handle_instant_forecast", user_id, "share_location_prompt",
                                 "no_coordinates", 0, "none", FALSE, None)
               /\ UNCHANGED << runs, mp3 >>
    /\ UNCHANGED << phase, store, jobs, upsert >>

\* The await of bot.send_message ends.  On success the run opens
\* weather.mp3, reads it for the upload and awaits bot.send_audio.
SendMessageReturns(r, ok) ==
    /\ LoopFree /\ runs[r].pc = "send_message"
    /\ LET user_id == runs[r].user
       IN CASE ~ok ->
                 /\ event' = Event("send_message", user_id, "", "send_message_raised", 0, "none", FALSE, None)
                 /\ runs' = [runs EXCEPT ![r] = IdleRun]
            [] ok /\ mp3 = None ->
                 /\ event' = Event("send_message", user_id, "", "open_raised", 0, "none", TRUE, None)
                 /\ runs' = [runs EXCEPT ![r] = IdleRun]
            [] OTHER ->
                 /\ event' = Event("send_message", user_id, "", "awaiting_send_audio", 0, "none", TRUE, None)
                 /\ runs' = [runs EXCEPT ![r] = [pc |-> "send_audio", user |-> user_id, audio |-> mp3]]
    /\ UNCHANGED << phase, store, jobs, mp3, upsert >>

\* The await of bot.send_audio ends.  On success os.remove("weather.mp3").
SendAudioReturns(r, ok) ==
    /\ LoopFree /\ runs[r].pc = "send_audio"
    /\ LET user_id == runs[r].user
       IN CASE ~ok ->
                 /\ event' = Event("send_audio", user_id, "", "send_audio_raised", 0, "none", FALSE, None)
                 /\ mp3' = mp3
            [] ok /\ mp3 = None ->
                 /\ event' = Event("send_audio", user_id, "", "remove_raised", 0, "none", FALSE, runs[r].audio)
                 /\ mp3' = mp3
            [] OTHER ->
                 /\ event' = Event("send_audio", user_id, "", "delivered", 0, "none", FALSE, runs[r].audio)
                 /\ mp3' = None
    /\ runs' = [runs EXCEPT ![r] = IdleRun]
    /\ UNCHANGED << phase, store, jobs, upsert >>

\* ------------------------------------------------------------------------
\* The program
\* ------------------------------------------------------------------------

\* A new database, a new scheduler, main() about to run the post_init hook.
Init ==
    /\ phase = "starting"
    /\ store = << >>
    /\ jobs = {}
    /\ runs = [r \in RunIds |-> IdleRun]
    /\ mp3 = None
    /\ event = Quiet("main", 0, "", "started")
    /\ upsert = None

Lifecycle == setup_scheduler \/ Restart

LocationMessage ==
    \E u \in Users, loc \in Locations, resp \in TzResponses : handle_location(u, loc, resp)

TimeMessage ==
    \E u \in Users, text \in TimeTexts, dbok \in BOOLEAN : handle_time_input(u, text, dbok)

Firing ==
    \E u \in Users, w \in BOOLEAN, n \in BOOLEAN, tts \in TtsResults : Fire(u, w, n, tts)

ForecastMessage ==
    \E u \in Users, w \in BOOLEAN, n \in BOOLEAN, tts \in TtsResults :
        handle_instant_forecast(u, w, n, tts)

SendReturns ==
    \/ \E r \in RunIds, ok \in BOOLEAN : SendMessageReturns(r, ok)
    \/ \E r \in RunIds, ok \in BOOLEAN : SendAudioReturns(r, ok)

Next == Lifecycle \/ LocationMessage \/ TimeMessage \/ Firing \/ ForecastMessage \/ SendReturns

\* The whole program.
Spec == Init /\ [][Next]_vars

\* The settings side of the program: start-up and restarts, location and
\* time messages over the full input sets, and firings while the weather
\* service is down, which end at the failed fetch.
NextSettings ==
    \/ Lifecycle
    \/ LocationMessage
    \/ TimeMessage
    \/ \E u \in Users : Fire(u, FALSE, TRUE, "saved")

SpecSettings == Init /\ [][NextSettings]_vars

\* The settings side while every write to the database succeeds.
NextReliable ==
    \/ Lifecycle
    \/ LocationMessage
    \/ \E u \in Users, text \in TimeTexts : handle_time_input(u, text, TRUE)
    \/ \E u \in Users : Fire(u, FALSE, TRUE, "saved")

SpecReliable == Init /\ [][NextReliable]_vars

\* The program once settings are in place and no settings message arrives:
\* start-up, firings, forecast requests and the returns of the two sends,
\* with every answer of the collaborators.  A stored row is one the settings
\* handlers can have written.
Row(lat, lon, notification_time, timezone) ==
    [latitude |-> lat, longitude |-> lon, notification_time |-> notification_time,
     timezone |-> timezone]

DeliveryRows ==
    { Row(Some(50), Some(30), Some(<< "0", "8", ":", "0", "0" >>), Some(DefaultZone)),
      Row(Some(0), Some(30), Some(<< "0", "8", ":", "0", "0" >>), Some(DefaultZone)),
      Row(Some(50), Some(30), None, Some(DefaultZone)) }

Tables(rows) == UNION { [us -> rows] : us \in SUBSET Users }

InitDelivery ==
    /\ phase = "starting"
    /\ store \in Tables(DeliveryRows)
    /\ jobs = {}
    /\ runs = [r \in RunIds |-> IdleRun]
    /\ mp3 = None
    /\ event = Quiet("main", 0, "", "started")
    /\ upsert = None

NextDelivery == Lifecycle \/ Firing \/ ForecastMessage \/ SendReturns

SpecDelivery == InitDelivery /\ [][NextDelivery]_vars

\* Any table contents over the sample values: what start-up finds when the
\* database was written by earlier runs or by hand.
StoredTimes == { t \in TimeTexts : TimeOf[t].ok /\ CronTriggerAccepts(TimeOf[t].hour, TimeOf[t].minute) }

AnyRows ==
    { Row(c[1], c[2], t, z) :
        c \in { << None, None >> } \cup { << Some(l.lat), Some(l.lon) >> : l \in Locations },
        t \in { None } \cup { Some(x) : x \in StoredTimes },
        z \in { None, Some("") } \cup { Some(n) : n \in ZoneNames } }

InitRestore ==
    /\ phase = "starting"
    /\ store \in Tables(AnyRows)
    /\ jobs = {}
    /\ runs = [r \in RunIds |-> IdleRun]
    /\ mp3 = None
    /\ event = Quiet("main", 0, "", "started")
    /\ upsert = None

\* Start-up, and restart, on any table contents.
SpecRestore == InitRestore /\ [][Lifecycle]_vars

LatArgs == { None } \cup { Some(l.lat) : l \in Locations }

LonArgs == { None } \cup { Some(l.lon) : l \in Locations }

TimeArgs == { None, Some(<< "2", "3", ":", "5", "9" >>) }

ZoneArgs == { None, Some("America/New_York") }

\* A direct call save_user_settings(user_id, lat, lon, notification_time, timezone).
SaveCall(user_id, lat, lon, notification_time, timezone) ==
    /\ LoopFree
    /\ store' = save_user_settings(store, user_id, lat, lon, notification_time, timezone)
    /\ event' = Quiet("save_user_settings", user_id, "", "ok")
    /\ UNCHANGED << phase, jobs, runs, mp3, upsert >>

\* The store on its own: any table contents, direct calls of
\* save_user_settings with any choice of arguments, and location messages.
\* The scheduler plays no part and holds no job.
InitStore ==
    /\ phase = "polling"
    /\ store \in Tables(AnyRows)
    /\ jobs = {}
    /\ runs = [r \in RunIds |-> IdleRun]
    /\ mp3 = None
    /\ event = Quiet("main", 0, "", "started")
    /\ upsert = None

NextStore ==
    \/ LocationMessage
    \/ \E u \in Users, lat \in LatArgs, lon \in LonArgs, t \in TimeArgs, z \in ZoneArgs :
          SaveCall(u, lat, lon, t, z)

SpecStore == InitStore /\ [][NextStore]_vars

\* save_user_settings statement by statement.  SaveReads is the call up to
\* current = get_user_settings(user_id): the arguments and the row read are
\* the locals of the call.
SaveReads(user_id, lat, lon, notification_time, timezone) ==
    /\ LoopFree /\ upsert = None
    /\ AcceptingUpdates /\ HandlerFree
    /\ upsert' = Some([user_id |-> user_id, lat |-> lat, lon |-> lon,
                       notification_time |-> notification_time, timezone |-> timezone,
                       current |-> get_user_settings(store, user_id)])
    /\ event' = Quiet("save_user_settings.read", user_id, "", "read")
    /\ UNCHANGED << phase, store, jobs, runs, mp3 >>

\* SaveWrites is the rest of the call: merge the arguments with the row
\* read, INSERT OR REPLACE the merged row and commit, in one statement.
SaveWrites ==
    /\ upsert # None
    /\ LET call == upsert[1]
           current == call.current
           row == [latitude          |-> IF call.lat # None THEN call.lat ELSE current.latitude,
                   longitude         |-> IF call.lon # None THEN call.lon ELSE current.longitude,
                   notification_time |-> IF call.notification_time # None
                                         THEN call.notification_time
                                         ELSE current.notification_time,
                   timezone          |-> IF call.timezone # None THEN call.timezone
                                         ELSE current.timezone]
       IN /\ store' = [u \in DOMAIN store \cup {call.user_id} |->
                          IF u = call.user_id THEN row ELSE store[u]]
          /\ event' = Quiet("save_user_settings.write", call.user_id, "", "ok")
    /\ upsert' = None
    /\ UNCHANGED << phase, jobs, runs, mp3 >>

\* The two calls the handlers make: handle_location passes coordinates and
\* timezone, handle_time_input passes the time alone.
LocationSave ==
    \E u \in Users, loc \in Locations, z \in ZoneNames :
        SaveReads(u, Some(loc.lat), Some(loc.lon), None, Some(z))

TimeSave ==
    \E u \in Users, t \in StoredTimes : SaveReads(u, None, None, Some(t), None)

InitUpsert ==
    /\ phase = "polling"
    /\ store = << >>
    /\ jobs = {}
    /\ runs = [r \in RunIds |-> IdleRun]
    /\ mp3 = None
    /\ event = Quiet("main", 0, "", "started")
    /\ upsert = None

\* The store under the calls of the handlers taken statement by statement,
\* next to whole location messages and forecast requests, which are the
\* other tasks that write and read the table.
NextUpsert ==
    \/ LocationSave
    \/ TimeSave
    \/ SaveWrites
    \/ LocationMessage
    \/ \E u \in Users : handle_instant_forecast(u, FALSE, TRUE, "saved")

SpecUpsert == InitUpsert /\ [][NextUpsert]_vars

\* ------------------------------------------------------------------------
\* Properties
\* ------------------------------------------------------------------------

JobsOf(js, user_id) == { j \in js : j.id = user_id }

\* The time input of user_id was taken: the job was added.
Scheduled(e, user_id) ==
    /\ e.op = "handle_time_input" /\ e.user = user_id
    /\ e.reply \in { "time_set", "error" }

\* C1: every step that changes the job table leaves at most one job per
\* user id, and a time input that reaches add_job leaves exactly the job of
\* the hour and minute just sent, in the stored timezone, whatever job the
\* user had before.
C1_OneJobPerUser ==
    [][ jobs' # jobs =>
          \A u \in Users :
              /\ Cardinality(JobsOf(jobs', u)) <= 1
              /\ Scheduled(event', u) =>
                    \A text \in TimeTexts :
                        (\E dbok \in BOOLEAN : handle_time_input(u, text, dbok))
                        => JobsOf(jobs', u) = { Job(u, TimeOf[text].hour, TimeOf[text].minute,
                                                    store[u].timezone[1]) } ]_vars

\* C1 happens: a time input of one user was just taken, that user has the
\* single 23:59 job and the other user has a job as well.
C1_Witness ==
    \E u \in Users :
        /\ Scheduled(event, u)
        /\ \E j \in jobs : JobsOf(jobs, u) = {j} /\ j.hour = 23 /\ j.minute = 59
        /\ \E v \in Users \ {u} : JobsOf(jobs, v) # {}

\* C2: a call of save_user_settings leaves every field whose argument is
\* omitted (None) as it was stored before, the fields of a user without a
\* row being NULL; and a location message leaves the stored
\* notification_time of its user as it was.
C2_FieldWiseUpsert ==
    [][ LET u == event'.user
            old == get_user_settings(store, u)
            new == get_user_settings(store', u)
        IN /\ event'.op = "save_user_settings" =>
                \A lat \in LatArgs, lon \in LonArgs, t \in TimeArgs, z \in ZoneArgs :
                    store' = save_user_settings(store, u, lat, lon, t, z) =>
                        /\ lat = None => new.latitude = old.latitude
                        /\ lon = None => new.longitude = old.longitude
                        /\ t = None => new.notification_time = old.notification_time
                        /\ z = None => new.timezone = old.timezone
           /\ event'.op = "handle_location" => new.notification_time = old.notification_time ]_vars

\* C2 happens: a location message was just saved for a user whose row holds
\* a notification time.
C2_Witness ==
    /\ event.op = "handle_location" /\ event.reply = "location_saved"
    /\ store[event.user].notification_time # None
    /\ store[event.user].latitude # None

\* C3: while the process runs, the job table is the one restore_jobs builds
\* from the users table, so that a restart (job table emptied, restore_jobs
\* on the persisted table) gives back the jobs that were active before it.
C3_RestartReproducesJobs == phase = "polling" => restore_jobs(store, {}) = jobs

\* A profile start-up can schedule: notification_time and timezone both set.
Schedulable(st, user_id) ==
    /\ user_id \in DOMAIN st
    /\ st[user_id].notification_time # None
    /\ st[user_id].timezone # None /\ st[user_id].timezone # Some("")

NoTimezone(settings) == settings.timezone = None

\* C5: a time input of a user whose profile has no timezone, or who has no
\* profile, changes neither the job table nor the users table and is
\* answered with the 'share location first' reply.
C5_NoTimezoneNoSchedule ==
    [][ \A u \in Users :
          ( /\ event'.op = "handle_time_input" /\ event'.user = u
            /\ NoTimezone(get_user_settings(store, u)) )
          => /\ jobs' = jobs
             /\ store' = store
             /\ event'.reply = "share_location_first" ]_vars

\* C5 happens: a user without a profile was told to share the location
\* while the other user holds a job.
C5_Witness ==
    /\ event.op = "handle_time_input" /\ event.reply = "share_location_first"
    /\ event.user \notin DOMAIN store
    /\ jobs # {}

OutOfRange(text) == TimeOf[text].hour \notin 0..23 \/ TimeOf[text].minute \notin 0..59

\* C6: a time input whose hour is not in 0..23 or whose minute is not in
\* 0..59 leaves the job table and the users table as they were and gets a
\* corrective reply, and no step installs a job or stores a time of such a
\* value.
C6_OutOfRangeRejected ==
    [][ /\ \A u \in Users :
             (event'.op = "handle_time_input" /\ event'.user = u) =>
                 \A text \in TimeTexts :
                     (OutOfRange(text) /\ \E dbok \in BOOLEAN : handle_time_input(u, text, dbok))
                     => /\ jobs' = jobs
                        /\ store' = store
                        /\ event'.reply \in { "invalid_format", "share_location_first" }
        /\ \A j \in jobs' \ jobs : j.hour \in 0..23 /\ j.minute \in 0..59
        /\ store' # store =>
             \A u \in DOMAIN store' :
                 store'[u].notification_time # None
                 => ~OutOfRange(store'[u].notification_time[1]) ]_vars

\* C6 happens: a user with a job and a stored time got the 'invalid
\* format' reply.
C6_Witness ==
    /\ event.op = "handle_time_input" /\ event.reply = "invalid_format"
    /\ JobsOf(jobs, event.user) # {}
    /\ store[event.user].notification_time # None

\* C7: when a user whose profile has a timezone sends an hour:minute in
\* range and the write succeeds, the handler confirms, the stored
\* notification_time parses to that hour and minute, the user's one job has
\* that hour and minute and the stored timezone, and timezone, latitude and
\* longitude are as before.
C7_TimeRoundTrip ==
    [][ \A u \in Users :
          (event'.op = "handle_time_input" /\ event'.user = u) =>
              \A text \in TimeTexts :
                  ( /\ ~OutOfRange(text)
                    /\ TruthyString(get_user_settings(store, u).timezone)
                    /\ handle_time_input(u, text, TRUE) )
                  => LET old == get_user_settings(store, u)
                         new == get_user_settings(store', u)
                     IN /\ event'.reply = "time_set"
                        /\ new.notification_time # None
                        /\ TimeOf[new.notification_time[1]].hour = TimeOf[text].hour
                        /\ TimeOf[new.notification_time[1]].minute = TimeOf[text].minute
                        /\ new.timezone = old.timezone
                        /\ JobsOf(jobs', u) = { Job(u, TimeOf[text].hour, TimeOf[text].minute,
                                                    new.timezone[1]) }
                        /\ new.latitude = old.latitude
                        /\ new.longitude = old.longitude ]_vars

\* C7 happens: a user in America/New_York sent "08:00", it was confirmed
\* and the job is at 8:00.
C7_Witness ==
    /\ event.op = "handle_time_input" /\ event.reply = "time_set"
    /\ store[event.user].timezone = Some("America/New_York")
    /\ store[event.user].notification_time = Some(<< "0", "8", ":", "0", "0" >>)
    /\ \E j \in JobsOf(jobs, event.user) : j.hour = 8 /\ j.minute = 0

\* C8: a message handler or a firing runs only once start-up is over, and
\* restore_jobs runs on the empty job table of a process that has handled
\* nothing yet.
C8_RestoreBeforeUpdates ==
    [][ /\ event'.op \in { "handle_location", "handle_time_input", "handle_instant_forecast", "fire" }
           => phase = "polling" /\ phase' = "polling"
        /\ event'.op = "setup_scheduler"
           => phase = "starting" /\ jobs = {} /\ event.op \in { "main", "restart" } ]_vars

\* C8 happens: after a restart, start-up has put jobs back.
C8_Witness ==
    /\ event.op = "setup_scheduler"
    /\ phase = "polling"
    /\ jobs # {}

HasCoordinates(settings) == TruthyNumber(settings.latitude) /\ TruthyNumber(settings.longitude)

\* C9: a firing whose weather fetch fails makes that one fetch, does not call
\* the narration generator, sends no text and no audio, ends there (the run
\* is idle and weather.mp3 untouched), and leaves the job table, with the
\* user's job in it, as it was.
C9_WeatherFailureSendsNothing ==
    [][ \A u \in Users :
          ( /\ event'.op = "fire" /\ event'.user = u
            /\ HasCoordinates(get_user_settings(store, u))
            /\ \E n \in BOOLEAN, tts \in TtsResults : Fire(u, FALSE, n, tts) )
          => /\ event'.fetches = 1
             /\ event'.narration = "none"
             /\ ~event'.text
             /\ event'.audio = None
             /\ runs'[u] = IdleRun
             /\ mp3' = mp3
             /\ jobs' = jobs
             /\ JobsOf(jobs', u) # {} ]_vars

\* C9 happens: a firing for a user with coordinates ended at the failed
\* fetch and the user's job is in the table.
C9_Witness ==
    /\ event.op = "fire" /\ event.outcome = "no_weather" /\ event.fetches = 1
    /\ HasCoordinates(get_user_settings(store, event.user))
    /\ JobsOf(jobs, event.user) # {}

NoStoredCoordinates(settings) == settings.latitude = None \/ settings.longitude = None

\* C10: a forecast request of a user with no stored coordinates fetches no
\* weather, calls no narration, sends no forecast text and no audio, starts
\* no delivery, and is answered with the one 'share your location' reply.
C10_NoCoordinatesPrompt ==
    [][ \A u \in Users :
          ( /\ event'.op = "handle_instant_forecast" /\ event'.user = u
            /\ NoStoredCoordinates(get_user_settings(store, u)) )
          => /\ event'.fetches = 0
             /\ event'.narration = "none"
             /\ ~event'.text
             /\ event'.audio = None
             /\ event'.reply = "share_location_prompt"
             /\ runs' = runs
             /\ mp3' = mp3 ]_vars

\* C10 happens: a user without a profile asked for a forecast and got the
\* prompt while a delivery for the other user is in flight.
C10_Witness ==
    /\ event.op = "handle_instant_forecast" /\ event.reply = "share_location_prompt"
    /\ event.user \notin DOMAIN store
    /\ \E v \in Users \ {event.user} : runs[v].pc # "idle"

\* A run of send_daily_weather that holds weather.mp3 is at one of its sends.
HoldsSpeechFile(run) == run.pc \in { "send_message", "send_audio" }

\* C11: when a run of send_daily_weather that has created weather.mp3 ends,
\* at a send that fails as well as after the audio is sent, weather.mp3
\* does not exist.
C11_SpeechFileReleased ==
    [][ \A r \in RunIds :
          ( /\ event'.op \in { "send_message", "send_audio" }
            /\ HoldsSpeechFile(runs[r]) /\ runs'[r] = IdleRun )
          => mp3' = None ]_vars

\* A step of a run the scheduler started: the firing itself, or the return
\* of a send that is not the one the update handler awaits.
FiringStep ==
    \/ event'.op = "fire"
    \/ event'.op \in { "send_message", "send_audio" } /\ runs'[Handler] = runs[Handler]

\* How a step of send_daily_weather can end: each is a return of the
\* coroutine or one of its awaits, none an exception leaving it.
DeliveryOutcomes ==
    { "no_coordinates", "no_weather", "tts_raised", "awaiting_send_message",
      "send_message_raised", "open_raised", "awaiting_send_audio",
      "send_audio_raised", "remove_raised", "delivered" }

\* C12: every step of a firing, however it ends, leaves the job table as it
\* was, for the user of the firing and for every other user, leaves the
\* scheduler running, ends in a return or an await of send_daily_weather,
\* and leaves the runs of the other users where they were.
C12_FiringKeepsJobs ==
    [][ FiringStep =>
          /\ jobs' = jobs
          /\ \A u \in Users : JobsOf(jobs', u) = JobsOf(jobs, u)
          /\ phase' = "polling"
          /\ event'.outcome \in DeliveryOutcomes
          /\ \A v \in Users \ {event'.user} : runs'[v] = runs[v] ]_vars

\* C12 happens: a firing ended at a failed send_audio while the update
\* handler awaits a send of its own, and both users still have their jobs.
C12_Witness ==
    /\ event.op = "send_audio" /\ event.outcome = "send_audio_raised"
    /\ runs[Handler].pc # "idle"
    /\ \A u \in Users : JobsOf(jobs, u) # {}

\* C13: a forecast request that starts the delivery pipeline behaves as a
\* firing does on the same profile and the same answers of the
\* collaborators: its step is the step of send_daily_weather as the
\* scheduler calls it, with the same weather fetches, narration, speech
\* file and messages, only run by the update handler.
C13_SameForBothTriggers ==
    [][ \A u \in Users :
          ( /\ event'.op = "handle_instant_forecast" /\ event'.user = u
            /\ HasCoordinates(get_user_settings(store, u)) )
          => \A w \in BOOLEAN, n \in BOOLEAN, tts \in TtsResults :
                 handle_instant_forecast(u, w, n, tts)
                 => send_daily_weather(Handler, "handle_instant_forecast", u, 0, w, n, tts) ]_vars

\* The field of a row named by a column of the users table.
Column(settings, name) ==
    CASE name = "latitude" -> settings.latitude
      [] name = "longitude" -> settings.longitude
      [] name = "notification_time" -> settings.notification_time
      [] name = "timezone" -> settings.timezone

Columns == { "latitude", "longitude", "notification_time", "timezone" }

\* The argument a call of save_user_settings passes for a column.
Argument(call, name) ==
    CASE name = "latitude" -> call.lat
      [] name = "longitude" -> call.lon
      [] name = "notification_time" -> call.notification_time
      [] name = "timezone" -> call.timezone

\* C14: while a call of save_user_settings is between its read and its
\* write no other task runs, the step taken being its write; the write
\* stores the merge of its arguments with the table as it is then, so every
\* column the call does not pass keeps the value an earlier upsert gave it and
\* every column it passes has the new value, the rows of the other users
\* staying as they were: a read sees the row before or after, never a mix.
C14_UpsertAtomic ==
    [][ /\ upsert # None => event'.op = "save_user_settings.write"
        /\ event'.op = "save_user_settings.write" =>
              LET call == upsert[1]
                  old == get_user_settings(store, call.user_id)
                  new == get_user_settings(store', call.user_id)
              IN /\ call.current = old
                 /\ store' = save_user_settings(store, call.user_id, call.lat, call.lon,
                                                 call.notification_time, call.timezone)
                 /\ \A name \in Columns :
                       Column(new, name) = IF Argument(call, name) # None
                                           THEN Argument(call, name)
                                           ELSE Column(old, name)
                 /\ \A v \in DOMAIN store \ {call.user_id} : store'[v] = store[v] ]_vars

\* C14 happens: the time update of a user was just written on top of the
\* location update of the same user, and the row holds the fields of both.
C14_Witness ==
    /\ event.op = "save_user_settings.write"
    /\ event.user \in DOMAIN store
    /\ store[event.user].notification_time # None
    /\ store[event.user].latitude # None
    /\ store[event.user].timezone = Some("America/New_York")

\* C15: a firing or a forecast request for a profile whose latitude and
\* longitude are both stored, whatever their values, goes on to fetch the
\* weather: it does not end at the coordinates test and the request is not
\* answered with the 'share your location' reply.
C15_StoredCoordinatesProceed ==
    [][ \A u \in Users :
          ( /\ event'.op \in { "fire", "handle_instant_forecast" } /\ event'.user = u
            /\ ~NoStoredCoordinates(get_user_settings(store, u)) )
          => /\ event'.outcome # "no_coordinates"
             /\ event'.fetches >= 1
             /\ event'.reply # "share_location_prompt" ]_vars

\* C16: every stored profile that has a notification_time has a timezone
\* that is neither null nor empty, whatever the timezone lookups answered.
C16_TimeImpliesTimezone ==
    \A u \in DOMAIN store :
        store[u].notification_time # None => TruthyString(store[u].timezone)

\* C17: every job in the table fires in the timezone stored in the profile of
\* its user, also after that user has shared a new location.
C17_JobInStoredTimezone ==
    \A j \in jobs :
        get_user_settings(store, j.id).timezone = Some(j.timezone)

\* C18: whatever the interleaving of the runs of two users at their sends,
\* no run sends its user the audio rendered from the narration of the other
\* user, and no run finds weather.mp3 gone when it opens it or when it
\* removes it.
C18_OwnAudioDelivered ==
    [][ /\ event'.op = "send_audio"
           => event'.audio \notin { Some(v) : v \in Users \ {event'.user} }
        /\ event'.outcome \notin { "open_raised", "remove_raised" } ]_vars

\* C19: a time input answered with the 'invalid format' or the 'an error
\* occurred' reply leaves the job table and the users table as they were
\* before the message.
C19_ErrorReplyChangesNothing ==
    [][ ( /\ event'.op = "handle_time_input"
          /\ event'.reply \in { "invalid_format", "error" } )
        => /\ jobs' = jobs
           /\ store' = store ]_vars

====
